---- MODULE Spec2Model ----
(***************************************************************************)
(* A model of src/npd_webscraper.py: the WebScraper class (fetch_webpage,  *)
(* extract_table_data, process_row, clean_attribute, extract_value,        *)
(* create_dataframe, scrape) together with the parts of the libraries it   *)
(* calls that decide its results: BeautifulSoup's descendants, find_all,   *)
(* find, get_text and select on a parsed tree, str.split, str.strip and    *)
(* re.sub(r'\n+', ' ', x).                                                 *)
(*                                                                         *)
(* A Python str is a sequence of one-character strings.  A parsed document *)
(* is a tree of nodes [tag, text, kids]: an element has a tag and kids, a  *)
(* text node (NavigableString) has tag "#text" and its text.  The HTTP     *)
(* response is an input of fetch_webpage: a status code and the tree that  *)
(* BeautifulSoup(response.content, 'html.parser') builds from its body.    *)
(***************************************************************************)
EXTENDS Integers, Sequences, FiniteSets, TLC

VARIABLES
    url, soup, attributes, values,  \* the fields of the WebScraper object
    result,     \* the last call: its name, its input and what it gave back
    has_extracted,  \* history: some extract_table_data() has returned normally
    arg, ret    \* the argument and the results of a function applied on its own

vars == <<url, soup, attributes, values, result, has_extracted, arg, ret>>

(***************************************************************************)
(* Bounds of the model.                                                    *)
(***************************************************************************)
\* rows of a generated page (over all its table bodies)
MaxRows == 2
\* cap on the number of accumulated pairs (the lists grow without bound)
MaxAcc == 2
\* characters of the text of a generated first cell (clean_attribute)
MaxLen == 6
\* characters of the text of a generated second cell (extract_value)
MaxValueLen == 4
\* places where the text of a generated cell is cut into strings
MaxCuts == 1
\* characters of a generated attributes list (create_dataframe)
MaxChars == 6
\* attributes of a generated attributes list
MaxPairs == 2

(***************************************************************************)
(* Strings.                                                                *)
(***************************************************************************)
NL == "\n"
SP == " "
Chars == {"a", SP, NL}
\* the characters str.strip() removes, among Chars
Whitespace == {SP, NL}

\* Python's None where a str is expected (no str: its one element is no character)
NoneStr == <<"None">>

\* Python truthiness of an Optional[str]
Truthy(s) == s # NoneStr /\ s # <<>>

RECURSIVE lstrip(_)
lstrip(s) ==
    IF s # <<>> /\ Head(s) \in Whitespace THEN lstrip(Tail(s)) ELSE s

RECURSIVE rstrip(_)
rstrip(s) ==
    IF s # <<>> /\ s[Len(s)] \in Whitespace
    THEN rstrip(SubSeq(s, 1, Len(s) - 1))
    ELSE s

\* str.strip()
strip(s) == rstrip(lstrip(s))

\* str.split(sep)[0]: the text before the first occurrence of sep
RECURSIVE split_first(_, _)
split_first(s, sep) ==
    IF Len(s) < Len(sep) THEN s
    ELSE IF SubSeq(s, 1, Len(sep)) = sep THEN <<>>
    ELSE <<Head(s)>> \o split_first(Tail(s), sep)

\* the separator of clean_attribute: '\n\n\n\n'
FourNewlines == <<NL, NL, NL, NL>>

RECURSIVE skip_newlines(_)
skip_newlines(s) ==
    IF s # <<>> /\ Head(s) = NL THEN skip_newlines(Tail(s)) ELSE s

\* re.sub(r'\n+', ' ', x): every maximal run of newlines becomes one space
RECURSIVE sub_newlines(_)
sub_newlines(s) ==
    IF s = <<>> THEN <<>>
    ELSE IF Head(s) = NL THEN <<SP>> \o sub_newlines(skip_newlines(Tail(s)))
    ELSE <<Head(s)>> \o sub_newlines(Tail(s))

\* "".join(strings)
RECURSIVE join(_)
join(ss) == IF ss = <<>> THEN <<>> ELSE Head(ss) \o join(Tail(ss))

(***************************************************************************)
(* The parsed tree and BeautifulSoup's operations on it.                   *)
(***************************************************************************)
Text(s) == [tag |-> "#text", text |-> s, kids |-> <<>>]
El(t, ks) == [tag |-> t, text |-> <<>>, kids |-> ks]
\* Python's None where a Tag is expected
None == [tag |-> "None", text |-> <<>>, kids |-> <<>>]

\* Tag.descendants: every node below `node`, in document order
RECURSIVE descendants(_), descendants_of_all(_)
descendants(node) == descendants_of_all(node.kids)
descendants_of_all(ks) ==
    IF ks = <<>> THEN <<>>
    ELSE <<Head(ks)>> \o descendants(Head(ks)) \o descendants_of_all(Tail(ks))

\* Tag.find_all(name): the descendant elements of that name, in document order
find_all(node, name) == SelectSeq(descendants(node), LAMBDA n : n.tag = name)

\* Tag.find(name): the first of them, or None
find(node, name) ==
    LET found == find_all(node, name)
    IN  IF found = <<>> THEN None ELSE found[1]

\* Tag._all_strings(strip): the descendant strings; with strip each one is
\* stripped on its own and dropped when nothing is left
all_strings(node, stripped) ==
    LET strs == SelectSeq(descendants(node), LAMBDA n : n.tag = "#text")
        each == [i \in 1..Len(strs) |->
                    IF stripped THEN strip(strs[i].text) ELSE strs[i].text]
    IN  IF stripped THEN SelectSeq(each, LAMBDA s : s # <<>>) ELSE each

\* Tag.get_text(strip=...): the strings joined with the empty separator
get_text(node, stripped) == join(all_strings(node, stripped))

\* the selector of extract_table_data: 'div div div div div table tbody'
SelectorAncestors == <<"div", "div", "div", "div", "div", "table">>
SelectorTarget == "tbody"

\* soup.select(selector), a chain of descendant combinators: the elements of
\* the target name below ancestors that match the chain in order, in document
\* order.  k is how much of the chain the ancestors of `node` match.
RECURSIVE select_from(_, _), select_from_all(_, _)
select_from(node, k) ==
    LET here == IF node.tag = SelectorTarget /\ k = Len(SelectorAncestors)
                THEN <<node>> ELSE <<>>
        k2 == IF k < Len(SelectorAncestors) /\ node.tag = SelectorAncestors[k + 1]
              THEN k + 1 ELSE k
    IN  here \o select_from_all(node.kids, k2)
select_from_all(ks, k) ==
    IF ks = <<>> THEN <<>>
    ELSE select_from(Head(ks), k) \o select_from_all(Tail(ks), k)

select(document) == select_from_all(document.kids, 0)

(***************************************************************************)
(* The WebScraper object and its methods.  A method is an operator from    *)
(* the object (and its input) to an outcome: the object afterwards, what   *)
(* the call gave back ("None", "DataFrame" or "raise"), the exception's    *)
(* message and the returned table.                                         *)
(***************************************************************************)
Self(u, s, a, v) == [url |-> u, soup |-> s, attributes |-> a, values |-> v]

Return(self) == [self |-> self, ret |-> "None", msg |-> <<>>, table |-> <<>>]
ReturnTable(self, df) ==
    [self |-> self, ret |-> "DataFrame", msg |-> <<>>, table |-> df]
Raise(self, message) ==
    [self |-> self, ret |-> "raise", msg |-> message, table |-> <<>>]

\* the status fetch_webpage accepts
HTTP_OK == 200

\* __init__(url)
init(u) == Self(u, None, <<>>, <<>>)

\* a faulty variant: every 2xx status is taken for success
fetch_webpage_any_2xx(self, response) ==
    IF response.status_code >= 200 /\ response.status_code < 300
    THEN Return([self EXCEPT !.soup = response.content])
    ELSE Raise(self, <<"Failed to retrieve the webpage: ", self.url>>)

\* fetch_webpage(): response is what requests.get(self.url) gives, its status
\* code and its content as html.parser parses it
fetch_webpage(self, response) ==
    IF response.status_code = HTTP_OK
    THEN Return([self EXCEPT !.soup = response.content])
    ELSE Raise(self, <<"Failed to retrieve the webpage: ", self.url>>)

\* a faulty variant: the text is taken with strip=True
clean_attribute_stripped(attribute_td) ==
    split_first(get_text(attribute_td, TRUE), FourNewlines)

\* clean_attribute(attribute_td)
clean_attribute(attribute_td) ==
    split_first(get_text(attribute_td, FALSE), FourNewlines)

\* extract_value(value_td)
extract_value(value_td) ==
    LET button == find(value_td, "button")
    IN  IF button # None
        THEN get_text(button, TRUE)
        ELSE get_text(value_td, TRUE)

\* process_row(row): the pair (attribute, value); a Tag is always truthy
process_row(row) ==
    LET tds          == find_all(row, "td")
        attribute_td == IF Len(tds) > 0 THEN tds[1] ELSE None
        value_td     == IF Len(tds) > 1 THEN tds[2] ELSE None
        attribute    == IF attribute_td # None
                        THEN clean_attribute(attribute_td) ELSE NoneStr
        value        == IF value_td # None
                        THEN extract_value(value_td) ELSE NoneStr
    IN  <<attribute, value>>

\* a faulty variant: a row is kept when its attribute alone is truthy
append_row_attribute_only(self, row) ==
    LET pair == process_row(row)
    IN  IF Truthy(pair[1])
        THEN [self EXCEPT !.attributes = Append(@, pair[1]),
                          !.values = Append(@, pair[2])]
        ELSE self

\* a faulty variant: each list takes its own truthy element
append_row_unpaired(self, row) ==
    LET pair == process_row(row)
    IN  [self EXCEPT
            !.attributes = IF Truthy(pair[1]) THEN Append(@, pair[1]) ELSE @,
            !.values = IF Truthy(pair[2]) THEN Append(@, pair[2]) ELSE @]

\* the body of the inner loop of extract_table_data, for one row
append_row(self, row) ==
    LET pair == process_row(row)
    IN  IF Truthy(pair[1]) /\ Truthy(pair[2])
        THEN [self EXCEPT !.attributes = Append(@, pair[1]),
                          !.values = Append(@, pair[2])]
        ELSE self

\* for row in rows
RECURSIVE for_rows(_, _)
for_rows(self, rows) ==
    IF rows = <<>> THEN self
    ELSE for_rows(append_row(self, Head(rows)), Tail(rows))

\* for tbody in table_body
RECURSIVE for_bodies(_, _)
for_bodies(self, table_body) ==
    IF table_body = <<>> THEN self
    ELSE for_bodies(for_rows(self, find_all(Head(table_body), "tr")),
                    Tail(table_body))

\* a faulty variant: no check of self.soup (nothing is found in no document)
extract_table_data_unchecked(self) ==
    Return(for_bodies(self, select(self.soup)))

\* a faulty variant: the lists are emptied before the rows are read
extract_table_data_reset(self) ==
    IF self.soup = None
    THEN Raise(self,
               <<"Soup object is not initialized. Call fetch_webpage() first.">>)
    ELSE Return(for_bodies([self EXCEPT !.attributes = <<>>, !.values = <<>>],
                           select(self.soup)))

\* extract_table_data(); a BeautifulSoup object is truthy, None is not
extract_table_data(self) ==
    IF self.soup = None
    THEN Raise(self,
               <<"Soup object is not initialized. Call fetch_webpage() first.">>)
    ELSE Return(for_bodies(self, select(self.soup)))

\* a faulty variant: re.sub(r'\n', ' ', x), a space for each newline
RECURSIVE sub_each_newline(_)
sub_each_newline(s) ==
    IF s = <<>> THEN <<>>
    ELSE <<IF Head(s) = NL THEN SP ELSE Head(s)>> \o sub_each_newline(Tail(s))

normalize_each_newline(x) == strip(sub_each_newline(x))

\* the lambda of create_dataframe
normalize(x) == strip(sub_newlines(x))

\* a faulty variant: a table is refused before any page was fetched
create_dataframe_guarded(self) ==
    IF self.soup = None \/ Len(self.attributes) # Len(self.values)
    THEN Raise(self, <<"All arrays must be of the same length">>)
    ELSE ReturnTable(self,
            [i \in 1..Len(self.attributes) |->
                [Attribute |-> normalize(self.attributes[i]),
                 Value     |-> self.values[i]]])

\* create_dataframe(); pd.DataFrame raises ValueError on columns of unequal
\* length
create_dataframe(self) ==
    IF Len(self.attributes) # Len(self.values)
    THEN Raise(self, <<"All arrays must be of the same length">>)
    ELSE ReturnTable(self,
            [i \in 1..Len(self.attributes) |->
                [Attribute |-> normalize(self.attributes[i]),
                 Value     |-> self.values[i]]])

\* scrape(): the three steps, an exception of one ending the call.  `calls`
\* lists the methods the call ran.
scrape(self, response) ==
    LET fetched   == fetch_webpage(self, response)
        extracted == extract_table_data(fetched.self)
        created   == create_dataframe(extracted.self)
    IN  IF fetched.ret = "raise"
        THEN [out |-> fetched, calls |-> <<"fetch_webpage">>]
        ELSE IF extracted.ret = "raise"
        THEN [out |-> extracted,
              calls |-> <<"fetch_webpage", "extract_table_data">>]
        ELSE [out |-> created,
              calls |-> <<"fetch_webpage", "extract_table_data",
                          "create_dataframe">>]

(***************************************************************************)
(* Inputs: the pages a response can carry.                                 *)
(***************************************************************************)
Td(ks) == El("td", ks)
Tr(ks) == El("tr", ks)
Button(ks) == El("button", ks)
Table(rows) == El("table", <<El("tbody", rows)>>)
Div(ks) == El("div", ks)
Document(ks) == El("[document]", <<El("html", <<El("body", ks)>>)>>)

\* a page whose tables sit below five nested containers, as the selector expects
Page(tables) == Document(<<Div(<<Div(<<Div(<<Div(<<Div(tables)>>)>>)>>)>>)>>)

\* rows that yield a pair
RowA == Tr(<<Td(<<Text(<<"a">>)>>), Td(<<Text(<<"v">>)>>)>>)
RowB == Tr(<<Td(<<Text(<<SP, "b", NL, NL, "c">>)>>),
             Td(<<Text(<<"x">>), Button(<<Text(<<SP, "m", SP>>)>>)>>)>>)
\* an attribute of white space only, and a third cell
RowW == Tr(<<Td(<<Text(<<NL, SP>>)>>), Td(<<Text(<<"w">>)>>),
             Td(<<Text(<<"z">>)>>)>>)
\* rows that yield none: one cell, no cell, an attribute cut to nothing, a
\* button without text beside other text
RowShort == Tr(<<Td(<<Text(<<"a">>)>>)>>)
RowEmpty == Tr(<<>>)
RowNoAttr == Tr(<<Td(<<Text(<<NL, NL, NL, NL, "a">>)>>), Td(<<Text(<<"v">>)>>)>>)
RowNoValue == Tr(<<Td(<<Text(<<"a">>)>>),
                   Td(<<Button(<<Text(<<SP>>)>>), Text(<<"x">>)>>)>>)
\* a row whose second cell holds a table of its own
RowInner == Tr(<<Td(<<Text(<<"x">>)>>), Td(<<Text(<<"y">>)>>)>>)
RowOuter == Tr(<<Td(<<>>), Td(<<Table(<<RowInner>>)>>)>>)

RowKinds == {RowA, RowB, RowShort}

RowSeqs == UNION {[1..n -> RowKinds] : n \in 0..MaxRows}

\* the rows of a page: the first half in one table, the rest in a second one
GeneratedPages ==
    {Page(<<Table(SubSeq(rows, 1, (Len(rows) + 1) \div 2)),
            Table(SubSeq(rows, (Len(rows) + 1) \div 2 + 1, Len(rows)))>>) :
        rows \in RowSeqs}

SpecialPages ==
    { Page(<<>>),
      \* four containers only, and rows outside any tbody: nothing is located
      Document(<<Div(<<Div(<<Div(<<Div(<<Table(<<RowA>>)>>)>>)>>)>>)>>),
      Page(<<El("table", <<RowA, RowB>>)>>),
      Page(<<Table(<<RowNoAttr, RowW, RowNoValue>>)>>),
      Page(<<Table(<<RowEmpty, RowW>>), Table(<<RowA>>)>>),
      Page(<<Table(<<RowOuter>>)>>) }

Pages == GeneratedPages \cup SpecialPages

Response(status, page) == [status_code |-> status, content |-> page]

\* a failed request carries a page too, and fetch_webpage does not look at it
Responses ==
    {Response(HTTP_OK, page) : page \in Pages}
    \cup {Response(status, page) :
            status \in {204, 404, 500},
            page \in {Page(<<>>), Page(<<Table(<<RowA>>)>>)}}

Urls == {"https://factpages.sodir.no/105"}

(***************************************************************************)
(* Inputs of the functions applied on their own: cells whose text is cut   *)
(* into strings at every choice of places, every second string inside a    *)
(* <span>, and lists of attributes cut from one text.                      *)
(***************************************************************************)
Texts(n) == UNION {[1..k -> Chars] : k \in 0..n}

Min(S) == CHOOSE x \in S : \A y \in S : x <= y
Max(S) == CHOOSE x \in S : \A y \in S : y <= x

\* the pieces of t when it is cut after each position of cuts
RECURSIVE Pieces(_, _)
Pieces(t, cuts) ==
    IF cuts = {} THEN (IF t = <<>> THEN <<>> ELSE <<t>>)
    ELSE LET c == Min(cuts)
         IN  <<SubSeq(t, 1, c)>>
                \o Pieces(SubSeq(t, c + 1, Len(t)), {x - c : x \in cuts \ {c}})

\* the texts of at most n characters, cut in at most c places
PieceLists(n, c) ==
    UNION {{Pieces(t, cuts) :
                cuts \in {S \in SUBSET (1..(Len(t) - 1)) : Cardinality(S) <= c}} :
            t \in Texts(n)}

Nodes(strs) ==
    [i \in 1..Len(strs) |->
        IF i % 2 = 1 THEN Text(strs[i]) ELSE El("span", <<Text(strs[i])>>)]

AttributeCells(n) == {Td(Nodes(strs)) : strs \in PieceLists(n, MaxCuts)}

\* a cell of text, a button alone, a button between other text, two buttons
ValueCells(n) ==
    UNION {{Td(Nodes(strs)),
            Td(<<Button(Nodes(strs))>>),
            Td(<<Text(<<"a">>), Button(Nodes(strs)), Text(<<SP, "a">>)>>),
            Td(<<Button(Nodes(strs)), Button(<<Text(<<"a">>)>>)>>)} :
                strs \in PieceLists(n, MaxCuts)}

HasFourNewlines(t) ==
    \E i \in 1..(Len(t) - 3) : SubSeq(t, i, i + 3) = FourNewlines

\* the attribute lists an extraction can leave: no attribute is empty or
\* holds four newlines in a row
AttributeLists(n) ==
    {strs \in PieceLists(n, MaxPairs - 1) :
        \A i \in 1..Len(strs) : ~HasFourNewlines(strs[i])}

\* the values that go with them
SampleValue(i) == IF i % 2 = 1 THEN <<"a">> ELSE <<"a", SP, NL, "a">>

(***************************************************************************)
(* The state machine: one WebScraper and the calls made on it.             *)
(***************************************************************************)
\* Each action is one call of a public method, from its entry to its return
\* or its exception (the program is single-threaded).  `result` keeps what
\* the last call was given and gave back: its name, the status code of the
\* response it got, its outcome and the methods it ran.
SelfNow == Self(url, soup, attributes, values)

\* no request was made by the call
NoStatus == 0

CallResult(op, status, outcome, calls) ==
    [op |-> op, status |-> status, ret |-> outcome.ret, msg |-> outcome.msg,
     table |-> outcome.table, calls |-> calls]

Commit(op, status, outcome0, calls) ==
    \E outcome \in {outcome0} :
        /\ url' = outcome.self.url
        /\ soup' = outcome.self.soup
        /\ attributes' = outcome.self.attributes
        /\ values' = outcome.self.values
        /\ result' = CallResult(op, status, outcome, calls)
        /\ has_extracted' =
                \/ has_extracted
                \/ op = "extract_table_data" /\ outcome.ret # "raise"
                \/ op = "scrape" /\ calls[Len(calls)] = "create_dataframe"
        /\ UNCHANGED <<arg, ret>>

Fresh(u) ==
    /\ url = init(u).url
    /\ soup = init(u).soup
    /\ attributes = init(u).attributes
    /\ values = init(u).values
    /\ result = CallResult("__init__", NoStatus, Return(init(u)), <<>>)
    /\ has_extracted = FALSE

Init ==
    /\ \E u \in Urls : Fresh(u)
    /\ arg = None
    /\ ret = <<>>

FetchWebpage ==
    \E response \in Responses :
        Commit("fetch_webpage", response.status_code,
               fetch_webpage(SelfNow, response), <<"fetch_webpage">>)

\* The lists grow with every extraction: a call that would take them beyond
\* MaxAcc pairs is left out of the model (here and in Scrape).
ExtractTableData ==
    \E outcome \in {extract_table_data(SelfNow)} :
        /\ Len(outcome.self.attributes) <= MaxAcc
        /\ Commit("extract_table_data", NoStatus, outcome,
                  <<"extract_table_data">>)

CreateDataframe ==
    Commit("create_dataframe", NoStatus, create_dataframe(SelfNow),
           <<"create_dataframe">>)

Scrape ==
    \E response \in Responses :
        \E run \in {scrape(SelfNow, response)} :
            /\ Len(run.out.self.attributes) <= MaxAcc
            /\ Commit("scrape", response.status_code, run.out, run.calls)

Next == FetchWebpage \/ ExtractTableData \/ CreateDataframe \/ Scrape

Spec == Init /\ [][Next]_vars

(***************************************************************************)
(* Notions the properties are stated in.                                   *)
(***************************************************************************)
\* the rows extract_table_data reads: for each located table body in document
\* order, the rows below it
Visits(document) ==
    LET bodies == select(document)
    IN  join([i \in 1..Len(bodies) |-> find_all(bodies[i], "tr")])

\* the rows of the document that lie in a located table body, each once, in
\* document order
RECURSIVE rows_located(_, _, _), rows_located_all(_, _, _)
rows_located(node, k, inside) ==
    LET located == node.tag = SelectorTarget /\ k = Len(SelectorAncestors)
        here == IF node.tag = "tr" /\ inside THEN <<node>> ELSE <<>>
        k2 == IF k < Len(SelectorAncestors) /\ node.tag = SelectorAncestors[k + 1]
              THEN k + 1 ELSE k
    IN  here \o rows_located_all(node.kids, k2, inside \/ located)
rows_located_all(ks, k, inside) ==
    IF ks = <<>> THEN <<>>
    ELSE rows_located(Head(ks), k, inside) \o rows_located_all(Tail(ks), k, inside)

RowsInLocated(document) == rows_located_all(document.kids, 0, FALSE)

\* no located table body lies inside another one
NoNestedBodies(document) ==
    \A i \in 1..Len(select(document)) :
        find_all(select(document)[i], SelectorTarget) = <<>>

\* a row with at least two cells, a non-empty cleaned attribute and a
\* non-empty extracted value
Qualifies(row) ==
    LET tds == find_all(row, "td")
    IN  /\ Len(tds) >= 2
        /\ clean_attribute(tds[1]) # <<>>
        /\ extract_value(tds[2]) # <<>>

\* the table row a qualifying row stands for
TableRow(row) ==
    LET tds == find_all(row, "td")
    IN  [Attribute |-> normalize(clean_attribute(tds[1])),
         Value |-> extract_value(tds[2])]

\* the table of the qualifying rows among `rows`, in their order
RowsTable(rows) ==
    LET q == SelectSeq(rows, Qualifies)
    IN  [i \in 1..Len(q) |-> TableRow(q[i])]

\* the table of accumulated pairs
PairsTable(a, v) ==
    [i \in 1..Len(a) |-> [Attribute |-> normalize(a[i]), Value |-> v[i]]]

IsPrefix(s, t) == Len(s) <= Len(t) /\ SubSeq(t, 1, Len(s)) = s

NotInitializedMessage ==
    <<"Soup object is not initialized. Call fetch_webpage() first.">>

(***************************************************************************)
(* Properties of the state machine (Spec).                                 *)
(***************************************************************************)

\* C1: extract_table_data() on an object on which no fetch has succeeded
\* (soup is None) raises the "not initialized" error and leaves attributes
\* and values as they were, which is empty.
C1_ExtractBeforeFetchRaises ==
    [][(soup = None /\ result'.op = "extract_table_data")
        => /\ result'.ret = "raise"
           /\ result'.msg = NotInitializedMessage
           /\ attributes' = attributes /\ values' = values
           /\ attributes' = <<>> /\ values' = <<>>
           /\ soup' = None]_vars

C1_Witness ==
    soup = None /\ result.op = "extract_table_data" /\ result.ret = "raise"

\* C2: a scrape() whose request gets a status other than 200 raises an error
\* naming the scraper's URL, returns no table, runs neither
\* extract_table_data() nor create_dataframe(), and makes one request only.
C2_FailedFetchAbortsScrape ==
    (result.op = "scrape" /\ result.status # HTTP_OK)
        => /\ result.ret = "raise"
           /\ Len(result.msg) = 2 /\ result.msg[2] = url
           /\ result.table = <<>>
           /\ result.calls = <<"fetch_webpage">>

C2_Witness ==
    result.op = "scrape" /\ result.status = 404 /\ result.ret = "raise"

\* C3 as stated: the table scrape() returns is exactly the pairs of the
\* qualifying rows of the page, each row once, in document order.
C3_TableIsQualifyingRowsOfPage ==
    (result.op = "scrape" /\ result.ret = "DataFrame")
        => result.table = RowsTable(RowsInLocated(soup))

\* C3 amended: the table scrape() returns is the table of the pairs
\* accumulated before the call followed by one pair per visit of a qualifying
\* row, the rows being visited table body by table body; on an object without
\* earlier pairs and a page without nested located table bodies it is exactly
\* the pairs of the qualifying rows of the page in document order.
C3_ScrapeTable ==
    [][(result'.op = "scrape" /\ result'.ret = "DataFrame")
        => /\ result'.table =
                PairsTable(attributes, values) \o RowsTable(Visits(soup'))
           /\ (attributes = <<>> /\ NoNestedBodies(soup'))
                => /\ result'.table = RowsTable(RowsInLocated(soup'))
                   /\ Len(result'.table) =
                        Len(SelectSeq(RowsInLocated(soup'), Qualifies))]_vars

C3_Witness ==
    /\ result.op = "scrape" /\ result.ret = "DataFrame"
    /\ Len(result.table) = 2 /\ result.table[1] # result.table[2]
    /\ Len(select(soup)) = 2
    /\ Len(RowsInLocated(soup)) > 2
    /\ result.table = RowsTable(RowsInLocated(soup))

\* C4 as stated: extract_table_data() succeeds only once a page is fetched,
\* and create_dataframe() returns a table only after an extraction has
\* completed.
C4_EveryMethodChecksItsState ==
    /\ (result.op = "extract_table_data" /\ result.ret # "raise")
            => soup # None
    /\ (result.op = "create_dataframe" /\ result.ret = "DataFrame")
            => has_extracted

\* C4 amended: extract_table_data() raises exactly when no fetch has
\* succeeded and returns normally otherwise; a fetched object stays fetched
\* and a failed fetch leaves soup as it was; create_dataframe() checks
\* nothing: in every state, also before any fetch or extraction, it returns a
\* table with one row per accumulated pair.
C4_OnlyExtractionChecksItsState ==
    /\ [](soup = None => (~has_extracted /\ attributes = <<>> /\ values = <<>>))
    /\ [][/\ result'.op = "extract_table_data"
                => (result'.ret = "raise" <=> soup = None)
          /\ result'.op = "create_dataframe"
                => /\ result'.ret = "DataFrame"
                   /\ Len(result'.table) = Len(attributes)
          /\ soup # None => soup' # None
          /\ (result'.op = "fetch_webpage" /\ result'.ret = "raise")
                => soup' = soup]_vars

C4_Witness ==
    /\ result.op = "create_dataframe" /\ result.ret = "DataFrame"
    /\ soup = None /\ ~has_extracted /\ result.table = <<>>

\* C5: no element of attributes or values is empty or null, and no row of a
\* returned table has an empty Attribute or an empty Value.
C5_NoEmptyField ==
    /\ \A i \in 1..Len(attributes) : Truthy(attributes[i])
    /\ \A i \in 1..Len(values) : Truthy(values[i])
    /\ result.ret = "DataFrame"
        => \A i \in 1..Len(result.table) :
                /\ result.table[i].Attribute # <<>>
                /\ result.table[i].Value # <<>>

\* C9: attributes and values have the same length in every state, and the
\* i-th attribute and the i-th value were read from the same row.
C9_ParallelLists ==
    /\ [](Len(attributes) = Len(values))
    /\ [][\A i \in 1..Len(attributes') :
            /\ i <= Len(values')
            /\ \/ /\ i <= Len(attributes) /\ i <= Len(values)
                  /\ attributes'[i] = attributes[i]
                  /\ values'[i] = values[i]
               \/ \E j \in 1..Len(Visits(soup')) :
                    process_row(Visits(soup')[j])
                        = <<attributes'[i], values'[i]>>]_vars

C9_Witness ==
    /\ Len(attributes) = 2 /\ Len(values) = 2
    /\ attributes[1] # attributes[2] /\ values[1] # values[2]
    /\ result.ret = "raise"

\* C10: the lists are append-only: fetch_webpage() and create_dataframe()
\* leave them unchanged, a failing fetch_webpage() leaves soup unchanged,
\* every call keeps the earlier contents as a prefix, an extraction appends
\* the pairs of the current document, and a returned table begins with the
\* rows of the earlier pairs.
C10_AppendOnly ==
    [][/\ result'.op \in {"fetch_webpage", "create_dataframe"}
            => (attributes' = attributes /\ values' = values)
       /\ (result'.op = "fetch_webpage" /\ result'.ret = "raise")
            => soup' = soup
       /\ IsPrefix(attributes, attributes') /\ IsPrefix(values, values')
       /\ (result'.op \in {"extract_table_data", "scrape"}
           /\ result'.ret # "raise")
            => LET q == SelectSeq(Visits(soup'), Qualifies)
               IN  /\ attributes' = attributes
                        \o [i \in 1..Len(q) |-> process_row(q[i])[1]]
                   /\ values' = values
                        \o [i \in 1..Len(q) |-> process_row(q[i])[2]]
       /\ result'.ret = "DataFrame"
            => IsPrefix(PairsTable(attributes, values), result'.table)]_vars

C10_Witness ==
    /\ result.op = "scrape" /\ result.ret = "DataFrame"
    /\ Len(RowsTable(Visits(soup))) = 1
    /\ Len(result.table) = 2
    /\ result.table[2] = RowsTable(Visits(soup))[1]
    /\ result.table[1] # result.table[2]

(***************************************************************************)
(* clean_attribute on its own (SpecClean): a first cell is cleaned, and    *)
(* what is kept is normalized as create_dataframe does.                    *)
(***************************************************************************)
InitClean ==
    /\ \E u \in Urls : Fresh(u)
    /\ arg \in AttributeCells(MaxLen)
    /\ ret = <<>>

CleanAttribute ==
    /\ Len(ret) = 0
    /\ ret' = <<clean_attribute(arg)>>
    /\ UNCHANGED <<url, soup, attributes, values, result, has_extracted, arg>>

NormalizeAttribute ==
    /\ Len(ret) = 1 /\ Truthy(ret[1])
    /\ ret' = Append(ret, normalize(ret[1]))
    /\ UNCHANGED <<url, soup, attributes, values, result, has_extracted, arg>>

NextClean == CleanAttribute \/ NormalizeAttribute

SpecClean == InitClean /\ [][NextClean]_vars

\* the text of a node: its strings, in order
RECURSIVE text_of(_)
text_of(node) ==
    IF node.tag = "#text" THEN node.text
    ELSE join([i \in 1..Len(node.kids) |-> text_of(node.kids[i])])

\* t up to its first four newlines in a row
UpToFourNewlines(t) ==
    LET at == {i \in 1..(Len(t) - 3) : SubSeq(t, i, i + 3) = FourNewlines}
    IN  IF at = {} THEN t ELSE SubSeq(t, 1, Min(at) - 1)

\* C6: clean_attribute returns the unstripped text of the cell up to its
\* first four newlines in a row, all of it when there are none; the cut comes
\* before the newlines are turned into spaces; a text that begins with four
\* newlines gives the empty string, which is not kept.
C6_CutAtFourNewlines ==
    /\ Len(ret) >= 1 => ret[1] = UpToFourNewlines(text_of(arg))
    /\ Len(ret) = 2 => ret[2] = normalize(UpToFourNewlines(text_of(arg)))
    /\ (Len(ret) >= 1 /\ IsPrefix(FourNewlines, text_of(arg)))
            => (ret[1] = <<>> /\ ~Truthy(ret[1]) /\ Len(ret) = 1)

C6_Witness ==
    /\ text_of(arg) = <<"a", NL, NL, NL, NL, "a">>
    /\ Len(arg.kids) = 2
    /\ ret = << <<"a">>, <<"a">> >>

(***************************************************************************)
(* extract_value on its own (SpecValue).                                   *)
(***************************************************************************)
InitValue ==
    /\ \E u \in Urls : Fresh(u)
    /\ arg \in ValueCells(MaxValueLen)
    /\ ret = <<>>

ExtractValue ==
    /\ Len(ret) = 0
    /\ ret' = <<extract_value(arg)>>
    /\ UNCHANGED <<url, soup, attributes, values, result, has_extracted, arg>>

SpecValue == InitValue /\ [][ExtractValue]_vars

\* C7: extract_value returns the trimmed text of the first button of the
\* cell when there is one, whatever else the cell holds, and the trimmed text
\* of the whole cell when there is none.
C7_TrimmedText ==
    Len(ret) = 1
        => ret[1] = IF find_all(arg, "button") # <<>>
                    THEN strip(text_of(find_all(arg, "button")[1]))
                    ELSE strip(text_of(arg))

(***************************************************************************)
(* create_dataframe on the lists an extraction can leave (SpecTabulate).   *)
(***************************************************************************)
InitTabulate ==
    /\ \E u \in Urls :
          /\ url = u
          /\ result = CallResult("__init__", NoStatus, Return(init(u)), <<>>)
    /\ soup = Page(<<>>)
    /\ attributes \in AttributeLists(MaxChars)
    /\ values = [i \in 1..Len(attributes) |-> SampleValue(i)]
    /\ has_extracted = TRUE
    /\ arg = None
    /\ ret = <<>>

SpecTabulate == InitTabulate /\ [][CreateDataframe]_vars

\* the indices of S in increasing order
Sorted(S) ==
    [j \in 1..Cardinality(S) |->
        CHOOSE i \in S : Cardinality({x \in S : x < i}) = j - 1]

\* s with every run of newlines replaced by one space
Collapse(s) ==
    LET keep == Sorted({i \in 1..Len(s) : s[i] # NL \/ i = 1 \/ s[i - 1] # NL})
    IN  [j \in 1..Len(keep) |-> IF s[keep[j]] = NL THEN SP ELSE s[keep[j]]]

\* s without its leading and trailing white space
Trim(s) ==
    LET solid == {i \in 1..Len(s) : s[i] \notin Whitespace}
    IN  IF solid = {} THEN <<>> ELSE SubSeq(s, Min(solid), Max(solid))

\* C8: create_dataframe() returns a table with one row per accumulated pair,
\* in their order; each Attribute is the accumulated one with every run of
\* newlines replaced by one space and then trimmed, each Value the
\* accumulated one; normalizing an Attribute of the table changes nothing.
C8_NormalizedAttributeColumn ==
    result.op = "create_dataframe"
        => /\ result.ret = "DataFrame"
           /\ Len(result.table) = Len(attributes)
           /\ \A i \in 1..Len(result.table) :
                /\ result.table[i].Attribute = Trim(Collapse(attributes[i]))
                /\ result.table[i].Value = values[i]
                /\ normalize(result.table[i].Attribute)
                        = result.table[i].Attribute

C8_Witness ==
    /\ result.op = "create_dataframe"
    /\ attributes = << <<"a", NL, "a">>, <<NL, NL, "a">> >>
    /\ result.table = << [Attribute |-> <<"a", SP, "a">>, Value |-> <<"a">>],
                         [Attribute |-> <<"a">>,
                          Value |-> <<"a", SP, NL, "a">>] >>

====
